---- MODULE Spec2Model ----
(***************************************************************************)
(* Regex combinators of src/src/combinator_regex.rs.                       *)
(*                                                                         *)
(* A pattern (a value of a type implementing `Regex`) is a tagged tuple:   *)
(*   <<"Empty">>, <<"Dot">>, <<"Char", c>>, <<"CharFrom", set>>,           *)
(*   <<"Star", p>>, <<"Maybe", p>>, <<"Alt", p, q>>, <<"Seq", p, q>>.      *)
(* A tracking state (a value of the pattern's `State` type) mirrors the    *)
(* pattern: a record or a pair, as the struct of the source.               *)
(***************************************************************************)
EXTENDS Integers, Sequences, FiniteSets, TLC

VARIABLES regex, input, state, pos, pc, result,
          track, calls, starts, firstCall, everNever,
          ox, oy, oz, ores,
          attempts, states,
          pending, completed

vars == <<regex, input, state, pos, pc, result,
          track, calls, starts, firstCall, everNever,
          ox, oy, oz, ores,
          attempts, states,
          pending, completed>>

(***************************************************************************)
(* Bounds of the exploration.                                              *)
(***************************************************************************)
\* longest input string fed to is_match
MaxLen == 3
\* largest number of combinators in a pattern matched by two attempts at once
MaxTwoSize == 3
\* longest input string of each of the two attempts
MaxTwoLen == 2
\* largest number of RegexStorage constructor calls building a regex
MaxTermSize == 5
\* largest number of combinators in a pattern
MaxSize == 5
\* longest sequence of start()/advance() calls made on one tracking state
MaxCalls == 4
\* longest input fed to the integer and decimal patterns of the tests
MaxNumLen == 5

\* the characters inputs are made of
Alphabet == {"a", "b", "c"}

\* the charset given to oneof()
CharSets == {{"a", "b"}}

Strings == UNION {[1..n -> Alphabet] : n \in 0..MaxLen}

(***************************************************************************)
(* Accepts                                                                 *)
(***************************************************************************)
AcceptsValues == {"Yes", "No", "Always", "Never"}

as_bool(a) == a \in {"Yes", "Always"}

or_no_first(a, b) ==
    CASE a = "Always" \/ b = "Always" -> "Always"
      [] a = "No" \/ b = "No" -> "No"
      [] a = "Yes" \/ b = "Yes" -> "Yes"
      [] OTHER -> "Never"

or(a, b) ==
    CASE a = "Always" \/ b = "Always" -> "Always"
      [] a = "Yes" \/ b = "Yes" -> "Yes"
      [] a = "No" \/ b = "No" -> "No"
      [] OTHER -> "Never"

(***************************************************************************)
(* SimpleState                                                             *)
(***************************************************************************)
SimpleStates == {"Start", "End", "Both", "Neither"}

SimpleState_new == "Neither"

\* SimpleState_start forgetting a completed string
SimpleState_start_forget(s) == "Start"

SimpleState_start(s) ==
    IF s \in {"Neither", "Start"} THEN "Start" ELSE "Both"

SimpleState_advance_stay(s) ==
    IF s = "Neither" THEN "Neither" ELSE "End"

SimpleState_advance(s) ==
    IF s \in {"Neither", "End"} THEN "Neither" ELSE "End"

SimpleState_die(s) == "Neither"

SimpleState_accepts(s) ==
    CASE s \in {"End", "Both"} -> "Yes"
      [] s = "Start" -> "No"
      [] OTHER -> "Never"

(***************************************************************************)
(* The combinators: constructors of module `combinators`.                  *)
(***************************************************************************)
empty == <<"Empty">>
dot == <<"Dot">>
one(ch) == <<"Char", ch>>
oneof(charset) == <<"CharFrom", charset>>
seq(first, second) == <<"Seq", first, second>>
alt(left, right) == <<"Alt", left, right>>
star(p) == <<"Star", p>>
maybe(p) == <<"Maybe", p>>

RECURSIVE init_state(_), start(_, _), advance(_, _, _), accepts(_, _)

\* Empty
Empty_init_state == [empty |-> TRUE]
EmptyState_start(st) == [st EXCEPT !.empty = TRUE]
EmptyState_advance_keep(st, ch) == st
EmptyState_advance(st, ch) == [st EXCEPT !.empty = FALSE]
EmptyState_accepts(st) == IF st.empty THEN "Yes" ELSE "Never"

\* Dot
Dot_init_state == <<SimpleState_new>>
DotState_start(st) == <<SimpleState_start(st[1])>>
DotState_advance(st, ch) == <<SimpleState_advance(st[1])>>
DotState_accepts(st) == SimpleState_accepts(st[1])

\* Char
Char_init_state(p) == [ch |-> p[2], state |-> SimpleState_new]
CharState_start(st) == [st EXCEPT !.state = SimpleState_start(st.state)]
CharState_advance(st, ch) ==
    IF ch = st.ch
    THEN [st EXCEPT !.state = SimpleState_advance(st.state)]
    ELSE [st EXCEPT !.state = SimpleState_die(st.state)]
CharState_accepts(st) == SimpleState_accepts(st.state)

\* CharFrom
CharFrom_init_state(p) == [charset |-> p[2], state |-> SimpleState_new]
CharFromState_start(st) == [st EXCEPT !.state = SimpleState_start(st.state)]
CharFromState_advance(st, ch) ==
    IF ch \in st.charset
    THEN [st EXCEPT !.state = SimpleState_advance(st.state)]
    ELSE [st EXCEPT !.state = SimpleState_die(st.state)]
CharFromState_accepts(st) == SimpleState_accepts(st.state)

\* Star
Star_init_state(p) == [init |-> FALSE, state |-> init_state(p[2])]
StarState_start(p, st) == [init |-> TRUE, state |-> start(p[2], st.state)]
StarState_advance_once(p, st, ch) ==
    [init |-> FALSE, state |-> advance(p[2], st.state, ch)]
StarState_advance(p, st, ch) ==
    LET inner == advance(p[2], st.state, ch)
    IN  IF as_bool(accepts(p[2], inner))
        THEN [init |-> TRUE, state |-> start(p[2], inner)]
        ELSE [init |-> FALSE, state |-> inner]
\* StarState_accepts answering Always while the init flag is set
StarState_accepts_always(p, st) ==
    IF st.init THEN "Always" ELSE accepts(p[2], st.state)
StarState_accepts(p, st) ==
    IF st.init THEN "Yes" ELSE accepts(p[2], st.state)

\* Maybe
Maybe_init_state(p) == [init |-> FALSE, state |-> init_state(p[2])]
MaybeState_start(p, st) == [init |-> TRUE, state |-> start(p[2], st.state)]
MaybeState_advance_restart(p, st, ch) ==
    LET inner == advance(p[2], st.state, ch)
    IN  IF as_bool(accepts(p[2], inner))
        THEN [init |-> TRUE, state |-> start(p[2], inner)]
        ELSE [init |-> FALSE, state |-> inner]
MaybeState_advance(p, st, ch) ==
    [init |-> FALSE, state |-> advance(p[2], st.state, ch)]
MaybeState_accepts(p, st) ==
    IF st.init THEN "Yes" ELSE accepts(p[2], st.state)

\* Alt
Alt_init_state(p) == <<init_state(p[2]), init_state(p[3])>>
AltState_start(p, st) == <<start(p[2], st[1]), start(p[3], st[2])>>
AltState_advance(p, st, ch) ==
    <<advance(p[2], st[1], ch), advance(p[3], st[2], ch)>>
AltState_accepts(p, st) == or(accepts(p[2], st[1]), accepts(p[3], st[2]))

\* Seq
Seq_init_state(p) == <<init_state(p[2]), init_state(p[3])>>
SeqState_start_always(p, st) ==
    <<start(p[2], st[1]), start(p[3], st[2])>>
\* SeqState_start asking for A's acceptance before A is started
SeqState_start_early(p, st) ==
    IF as_bool(accepts(p[2], st[1]))
    THEN <<start(p[2], st[1]), start(p[3], st[2])>>
    ELSE <<start(p[2], st[1]), st[2]>>
SeqState_start(p, st) ==
    LET first == start(p[2], st[1])
    IN  IF as_bool(accepts(p[2], first))
        THEN <<first, start(p[3], st[2])>>
        ELSE <<first, st[2]>>
\* SeqState_advance with A advanced and B started before B is advanced
SeqState_advance_late(p, st, ch) ==
    LET first == advance(p[2], st[1], ch)
    IN  IF as_bool(accepts(p[2], first))
        THEN <<first, advance(p[3], start(p[3], st[2]), ch)>>
        ELSE <<first, advance(p[3], st[2], ch)>>
SeqState_advance(p, st, ch) ==
    LET second == advance(p[3], st[2], ch)
        first == advance(p[2], st[1], ch)
    IN  IF as_bool(accepts(p[2], first))
        THEN <<first, start(p[3], second)>>
        ELSE <<first, second>>
SeqState_accepts(p, st) == accepts(p[3], st[2])

\* Regex::init_state, dispatched on the pattern's type
init_state(p) ==
    CASE p[1] = "Empty" -> Empty_init_state
      [] p[1] = "Dot" -> Dot_init_state
      [] p[1] = "Char" -> Char_init_state(p)
      [] p[1] = "CharFrom" -> CharFrom_init_state(p)
      [] p[1] = "Star" -> Star_init_state(p)
      [] p[1] = "Maybe" -> Maybe_init_state(p)
      [] p[1] = "Alt" -> Alt_init_state(p)
      [] p[1] = "Seq" -> Seq_init_state(p)

\* RegexState::start
start(p, st) ==
    CASE p[1] = "Empty" -> EmptyState_start(st)
      [] p[1] = "Dot" -> DotState_start(st)
      [] p[1] = "Char" -> CharState_start(st)
      [] p[1] = "CharFrom" -> CharFromState_start(st)
      [] p[1] = "Star" -> StarState_start(p, st)
      [] p[1] = "Maybe" -> MaybeState_start(p, st)
      [] p[1] = "Alt" -> AltState_start(p, st)
      [] p[1] = "Seq" -> SeqState_start(p, st)

\* RegexState::advance
advance(p, st, ch) ==
    CASE p[1] = "Empty" -> EmptyState_advance(st, ch)
      [] p[1] = "Dot" -> DotState_advance(st, ch)
      [] p[1] = "Char" -> CharState_advance(st, ch)
      [] p[1] = "CharFrom" -> CharFromState_advance(st, ch)
      [] p[1] = "Star" -> StarState_advance(p, st, ch)
      [] p[1] = "Maybe" -> MaybeState_advance(p, st, ch)
      [] p[1] = "Alt" -> AltState_advance(p, st, ch)
      [] p[1] = "Seq" -> SeqState_advance(p, st, ch)

\* RegexState::accepts
accepts(p, st) ==
    CASE p[1] = "Empty" -> EmptyState_accepts(st)
      [] p[1] = "Dot" -> DotState_accepts(st)
      [] p[1] = "Char" -> CharState_accepts(st)
      [] p[1] = "CharFrom" -> CharFromState_accepts(st)
      [] p[1] = "Star" -> StarState_accepts(p, st)
      [] p[1] = "Maybe" -> MaybeState_accepts(p, st)
      [] p[1] = "Alt" -> AltState_accepts(p, st)
      [] p[1] = "Seq" -> SeqState_accepts(p, st)

(***************************************************************************)
(* Regex::is_match as a function of the pattern and the input: the loop    *)
(* from character i on, and the whole call.                                *)
(***************************************************************************)
RECURSIVE is_match_loop(_, _, _, _)
is_match_loop(p, st, s, i) ==
    IF i > Len(s)
    THEN as_bool(accepts(p, st))
    ELSE LET st2 == advance(p, st, s[i])
             a == accepts(p, st2)
         IN  CASE a = "Never" -> FALSE
               [] a = "Always" -> TRUE
               [] OTHER -> is_match_loop(p, st2, s, i + 1)

is_match(p, s) == is_match_loop(p, start(p, init_state(p)), s, 1)

(***************************************************************************)
(* The patterns the exploration builds, by number of combinators.          *)
(***************************************************************************)
Leaves ==
    {empty, dot} \cup {one(c) : c \in {"a", "b"}}
                 \cup {oneof(cs) : cs \in CharSets}

PatsOfSize[n \in 1..(MaxSize + 2)] ==
    IF n = 1
    THEN Leaves
    ELSE {star(p) : p \in PatsOfSize[n - 1]}
         \cup {maybe(p) : p \in PatsOfSize[n - 1]}
         \cup UNION {{alt(p, q) : p \in PatsOfSize[k], q \in PatsOfSize[n - 1 - k]}
                     : k \in 1..(n - 2)}
         \cup UNION {{seq(p, q) : p \in PatsOfSize[k], q \in PatsOfSize[n - 1 - k]}
                     : k \in 1..(n - 2)}

PatsUpTo(n) == UNION {PatsOfSize[k] : k \in 1..n}

Patterns == PatsUpTo(MaxSize)

(***************************************************************************)
(* Specification Spec: one call of Regex::is_match, step by step.          *)
(***************************************************************************)
NoState == <<"none">>

IdleCalls ==
    /\ track = {}
    /\ calls = 0
    /\ starts = 0
    /\ firstCall = "none"
    /\ everNever = FALSE

IdleOr ==
    /\ ox = "No"
    /\ oy = "No"
    /\ oz = "No"
    /\ ores = "No"

IdleTwo ==
    /\ attempts = <<>>
    /\ states = <<>>

IdleSimple ==
    /\ pending = FALSE
    /\ completed = FALSE

InitOver(pats) ==
    /\ regex \in pats
    /\ input \in Strings
    /\ state = NoState
    /\ pos = 1
    /\ pc = "init_state"
    /\ result = FALSE
    /\ IdleCalls
    /\ IdleOr
    /\ IdleTwo
    /\ IdleSimple

Init == InitOver(Patterns)

\* let mut state = self.init_state();
MatchInitState ==
    /\ pc = "init_state"
    /\ state' = init_state(regex)
    /\ pc' = "start"
    /\ UNCHANGED <<regex, input, pos, result, track, calls, starts, firstCall,
                   everNever, ox, oy, oz, ores,
                   attempts, states, pending, completed>>

\* state.start();
MatchStart ==
    /\ pc = "start"
    /\ state' = start(regex, state)
    /\ pc' = "loop"
    /\ track' = track \cup {<<>>}
    /\ calls' = calls + 1
    /\ starts' = starts + 1
    /\ firstCall' = IF firstCall = "none" THEN "start" ELSE firstCall
    /\ UNCHANGED <<regex, input, pos, result,
                   everNever, ox, oy, oz, ores,
                   attempts, states, pending, completed>>

\* MatchLoop with the iterator stepping over one character too many
MatchLoop_skip ==
    /\ pc = "loop"
    /\ pos <= Len(input)
    /\ state' = advance(regex, state, input[pos])
    /\ track' = {Append(s, input[pos]) : s \in track}
    /\ calls' = calls + 1
    /\ firstCall' = IF firstCall = "none" THEN "advance" ELSE firstCall
    /\ LET a == accepts(regex, state')
       IN  CASE a = "Never" -> /\ result' = FALSE
                               /\ pc' = "done"
                               /\ pos' = pos
             [] a = "Always" -> /\ result' = TRUE
                                /\ pc' = "done"
                                /\ pos' = pos
             [] OTHER -> /\ pos' = pos + 2
                         /\ UNCHANGED <<pc, result>>
    /\ UNCHANGED <<regex, input, starts,
                   everNever, ox, oy, oz, ores,
                   attempts, states, pending, completed>>

\* one iteration of `for ch in input.chars()`; track, calls and firstCall
\* record the call made on the state
MatchLoop ==
    /\ pc = "loop"
    /\ pos <= Len(input)
    /\ state' = advance(regex, state, input[pos])
    /\ track' = {Append(s, input[pos]) : s \in track}
    /\ calls' = calls + 1
    /\ firstCall' = IF firstCall = "none" THEN "advance" ELSE firstCall
    /\ LET a == accepts(regex, state')
       IN  CASE a = "Never" -> /\ result' = FALSE
                               /\ pc' = "done"
                               /\ pos' = pos
             [] a = "Always" -> /\ result' = TRUE
                                /\ pc' = "done"
                                /\ pos' = pos
             [] OTHER -> /\ pos' = pos + 1
                         /\ UNCHANGED <<pc, result>>
    /\ UNCHANGED <<regex, input, starts,
                   everNever, ox, oy, oz, ores,
                   attempts, states, pending, completed>>

\* state.accepts().as_bool() after the loop
MatchReturn ==
    /\ pc = "loop"
    /\ pos > Len(input)
    /\ result' = as_bool(accepts(regex, state))
    /\ pc' = "done"
    /\ UNCHANGED <<regex, input, state, pos, track, calls, starts, firstCall,
                   everNever, ox, oy, oz, ores,
                   attempts, states, pending, completed>>

Next ==
    \/ MatchInitState
    \/ MatchStart
    \/ MatchLoop
    \/ MatchReturn

Spec == Init /\ [][Next]_vars

(***************************************************************************)
(* Specification SpecAlt: is_match on alternations of a pattern and a leaf.*)
(***************************************************************************)
AltPatterns == {alt(p, q) : p \in Patterns, q \in Leaves}

InitAlt == InitOver(AltPatterns)

SpecAlt == InitAlt /\ [][Next]_vars

(***************************************************************************)
(* Specification SpecStar: is_match on the repetitions of a pattern.       *)
(***************************************************************************)
StarPatterns == {star(p) : p \in Patterns}

InitStar == InitOver(StarPatterns)

SpecStar == InitStar /\ [][Next]_vars

(***************************************************************************)
(* Specification SpecLeaf: is_match on every leaf: empty(), dot(), one(c)  *)
(* for every character and oneof(set) for every set of characters.         *)
(***************************************************************************)
LeafPatterns ==
    {empty, dot} \cup {one(c) : c \in Alphabet}
                 \cup {oneof(cs) : cs \in SUBSET Alphabet}

InitLeaf == InitOver(LeafPatterns)

SpecLeaf == InitLeaf /\ [][Next]_vars

(***************************************************************************)
(* Specification SpecNumber: is_match on the patterns of the tests, integer*)
(* and decimal, over the characters the tests feed them and a foreign one. *)
(***************************************************************************)
Digits == {"0", "1"}

NumberAlphabet == Digits \cup {".", "2"}

NumberStrings == UNION {[1..n -> NumberAlphabet] : n \in 0..MaxNumLen}

integer == alt(one("0"), seq(one("1"), star(oneof(Digits))))

tail == seq(one("."), star(oneof(Digits)))

decimal == seq(integer, maybe(tail))

InitNumber ==
    /\ regex \in {integer, decimal}
    /\ input \in NumberStrings
    /\ state = NoState
    /\ pos = 1
    /\ pc = "init_state"
    /\ result = FALSE
    /\ IdleCalls
    /\ IdleOr
    /\ IdleTwo
    /\ IdleSimple

SpecNumber == InitNumber /\ [][Next]_vars

(***************************************************************************)
(* Specification SpecCalls: any sequence of start() and advance(ch) calls  *)
(* on the state built by init_state().  track is the tracking set of the   *)
(* RegexState definition: empty at first, start() adds the empty string,   *)
(* advance(ch) appends ch to each of its strings.                          *)
(***************************************************************************)
InitCalls ==
    /\ regex \in Patterns
    /\ state = init_state(regex)
    /\ pc = "calls"
    /\ input = <<>>
    /\ pos = 1
    /\ result = FALSE
    /\ IdleCalls
    /\ IdleOr
    /\ IdleTwo
    /\ IdleSimple

CallStart ==
    /\ pc = "calls"
    /\ calls < MaxCalls
    /\ state' = start(regex, state)
    /\ track' = track \cup {<<>>}
    /\ calls' = calls + 1
    /\ starts' = starts + 1
    /\ firstCall' = IF firstCall = "none" THEN "start" ELSE firstCall
    /\ everNever' = FALSE
    /\ UNCHANGED <<regex, input, pos, pc, result, ox, oy, oz, ores,
                   attempts, states, pending, completed>>

CallAdvance(ch) ==
    /\ pc = "calls"
    /\ calls < MaxCalls
    /\ state' = advance(regex, state, ch)
    /\ track' = {Append(s, ch) : s \in track}
    /\ calls' = calls + 1
    /\ firstCall' = IF firstCall = "none" THEN "advance" ELSE firstCall
    /\ everNever' = \/ everNever
                    \/ /\ firstCall = "start"
                       /\ starts = 1
                       /\ accepts(regex, state') = "Never"
    /\ UNCHANGED <<regex, input, pos, pc, result, starts, ox, oy, oz, ores,
                   attempts, states, pending, completed>>

NextCalls ==
    \/ CallStart
    \/ \E ch \in Alphabet : CallAdvance(ch)

SpecCalls == InitCalls /\ [][NextCalls]_vars

(***************************************************************************)
(* Specification SpecOr: Accepts::or applied to operands drawn from the    *)
(* four values.                                                            *)
(***************************************************************************)
InitOr ==
    /\ ox \in AcceptsValues
    /\ oy \in AcceptsValues
    /\ oz \in AcceptsValues
    /\ ores = "none"
    /\ pc = "or"
    /\ regex = empty
    /\ input = <<>>
    /\ state = NoState
    /\ pos = 1
    /\ result = FALSE
    /\ IdleCalls
    /\ IdleTwo
    /\ IdleSimple

\* ores = ox.or(oy)
ApplyOr ==
    /\ pc = "or"
    /\ ores' = or(ox, oy)
    /\ pc' = "or_done"
    /\ UNCHANGED <<regex, input, state, pos, result, track, calls, starts,
                   firstCall, everNever, ox, oy, oz,
                   attempts, states, pending, completed>>

NextOr == ApplyOr

SpecOr == InitOr /\ [][NextOr]_vars

(***************************************************************************)
(* Reference notions the properties are stated with.                       *)
(***************************************************************************)
Prefix(s, k) == SubSeq(s, 1, k)
Suffix(s, k) == SubSeq(s, k + 1, Len(s))

\* the driver without early exit: start(), advance over all of s, accepts()
RECURSIVE advance_all(_, _, _, _)
advance_all(p, st, s, i) ==
    IF i > Len(s) THEN st ELSE advance_all(p, advance(p, st, s[i]), s, i + 1)

full_scan(p, s) ==
    as_bool(accepts(p, advance_all(p, start(p, init_state(p)), s, 1)))

\* s is a concatenation of zero or more strings that is_match(p, _) accepts
RECURSIVE Partitions(_, _)
Partitions(p, s) ==
    \/ s = <<>>
    \/ \E k \in 1..Len(s) :
          /\ is_match(p, Prefix(s, k))
          /\ Partitions(p, Suffix(s, k))

\* s belongs to the language the pattern p denotes
RECURSIVE InLanguage(_, _)
InLanguage(p, s) ==
    CASE p[1] = "Empty" -> s = <<>>
      [] p[1] = "Dot" -> Len(s) = 1
      [] p[1] = "Char" -> s = <<p[2]>>
      [] p[1] = "CharFrom" -> Len(s) = 1 /\ s[1] \in p[2]
      [] p[1] = "Maybe" -> s = <<>> \/ InLanguage(p[2], s)
      [] p[1] = "Alt" -> InLanguage(p[2], s) \/ InLanguage(p[3], s)
      [] p[1] = "Seq" ->
            \E k \in 0..Len(s) :
                InLanguage(p[2], Prefix(s, k)) /\ InLanguage(p[3], Suffix(s, k))
      [] p[1] = "Star" ->
            \/ s = <<>>
            \/ \E k \in 1..Len(s) :
                  InLanguage(p[2], Prefix(s, k)) /\ InLanguage(p, Suffix(s, k))

(***************************************************************************)
(* Properties.                                                             *)
(***************************************************************************)

\* C1: seq(A, B).is_match(s) is true exactly when s splits as s1 ++ s2 with
\* A.is_match(s1) and B.is_match(s2).
C1_SeqSplit ==
    (pc = "done" /\ regex[1] = "Seq") =>
        (result <=> \E k \in 0..Len(input) :
                       /\ is_match(regex[2], Prefix(input, k))
                       /\ is_match(regex[3], Suffix(input, k)))

\* C2: the early-exiting is_match returns what the driver without early exit
\* returns.
C2_ShortCircuitSound ==
    pc = "done" => (result <=> full_scan(regex, input))

\* C3: once a state started once returns Never after some advances, it
\* returns neither Yes nor Always after any further advances.
C3_NeverIsFinal ==
    (pc = "calls" /\ everNever) => ~as_bool(accepts(regex, state))

\* C4: after any sequence of start() and advance(ch) calls, accepts() is Yes
\* or Always exactly when the pattern accepts a string of the tracking set.
C4_AcceptsTracksSet ==
    pc = "calls" =>
        (as_bool(accepts(regex, state)) <=> \E s \in track : InLanguage(regex, s))

\* C5: star(A).is_match(s) is true exactly when s is a concatenation of zero
\* or more strings that A.is_match accepts.
C5_StarPartition ==
    (pc = "done" /\ regex[1] = "Star") =>
        (result <=> Partitions(regex[2], input))

\* C6: alt(A, B).is_match(s) equals A.is_match(s) || B.is_match(s).
C6_AltIsOr ==
    (pc = "done" /\ regex[1] = "Alt") =>
        (result <=> (is_match(regex[2], input) \/ is_match(regex[3], input)))

\* C7: maybe(A).is_match(s) equals (s is empty) || A.is_match(s).
C7_MaybeIsEmptyOrA ==
    (pc = "done" /\ regex[1] = "Maybe") =>
        (result <=> (input = <<>> \/ is_match(regex[2], input)))

C7_Witness ==
    /\ pc = "done"
    /\ regex[1] = "Maybe"
    /\ Len(input) = 2
    /\ ~result
    /\ is_match(regex[2], Prefix(input, 1))
    /\ is_match(regex[2], Suffix(input, 1))

\* C8: a single-character leaf matches s exactly when s has one character
\* and that character satisfies the leaf's predicate.
C8_LeafMatchesOneChar ==
    (pc = "done" /\ regex[1] \in {"Char", "CharFrom", "Dot"}) =>
        (result <=>
            /\ Len(input) = 1
            /\ CASE regex[1] = "Char" -> input[1] = regex[2]
                  [] regex[1] = "CharFrom" -> input[1] \in regex[2]
                  [] regex[1] = "Dot" -> TRUE)

C8_Witness ==
    /\ pc = "done"
    /\ regex[1] = "CharFrom"
    /\ Len(input) = 2
    /\ input[1] \in regex[2]
    /\ input[2] \in regex[2]
    /\ ~result

\* C9: empty().is_match(s) is true exactly when s is the empty string.
C9_EmptyMatchesEmpty ==
    (pc = "done" /\ regex = empty) => (result <=> input = <<>>)

C9_Witness ==
    /\ pc = "done"
    /\ regex = empty
    /\ Len(input) = 2
    /\ ~result

\* C10: Accepts::or is commutative and associative, or(Always, x) is Always,
\* or(Never, Never) is Never, and the result is Always if either operand is
\* Always, else Yes if either is Yes, else No if either is No, else Never.
C10_OrLattice ==
    pc = "or_done" =>
        /\ ores = or(oy, ox)
        /\ or(ores, oz) = or(ox, or(oy, oz))
        /\ (ox = "Always" => ores = "Always")
        /\ (ox = "Never" /\ oy = "Never" => ores = "Never")
        /\ ores = IF "Always" \in {ox, oy} THEN "Always"
                  ELSE IF "Yes" \in {ox, oy} THEN "Yes"
                  ELSE IF "No" \in {ox, oy} THEN "No"
                  ELSE "Never"

C10_Witness ==
    /\ pc = "or_done"
    /\ ox = "No"
    /\ oy = "Never"
    /\ oz = "Yes"
    /\ ores = "No"

\* C11: until start() is first called on the state built by init_state(),
\* accepts() returns No or Never, right after construction and after any
\* sequence of advance calls.
C11_UnstartedRejects ==
    (pc = "calls" /\ starts = 0) => ~as_bool(accepts(regex, state))

\* s is "0", or '1' followed by zero or more characters of "01"
IsInteger(s) ==
    \/ s = <<"0">>
    \/ /\ Len(s) >= 1
       /\ s[1] = "1"
       /\ \A i \in 2..Len(s) : s[i] \in Digits

\* s is an integer, optionally followed by one '.' and zero or more digits
IsDecimal(s) ==
    \E k \in 1..Len(s) :
        /\ IsInteger(Prefix(s, k))
        /\ \/ k = Len(s)
           \/ /\ s[k + 1] = "."
              /\ \A i \in (k + 2)..Len(s) : s[i] \in Digits

\* C13: alt(one('0'), seq(one('1'), star(oneof("01")))) matches exactly "0"
\* and the strings made of '1' followed by zero or more characters of "01".
C13_IntegerPattern ==
    (pc = "done" /\ regex = integer) => (result <=> IsInteger(input))

C13_Witness ==
    /\ pc = "done"
    /\ regex = integer
    /\ Len(input) >= 3
    /\ input[1] = "1"
    /\ input[3] = "0"
    /\ result

\* C14: seq(integer, maybe(seq(one('.'), star(digits)))) matches exactly an
\* integer optionally followed by one '.' and zero or more digits; a second
\* '.' or a missing integer part is rejected.
C14_DecimalPattern ==
    (pc = "done" /\ regex = decimal) => (result <=> IsDecimal(input))

C14_Witness ==
    /\ pc = "done"
    /\ regex = decimal
    /\ Len(input) >= 4
    /\ input[1] = "1"
    /\ input[2] = "."
    /\ input[3] = "0"
    /\ input[4] = "."
    /\ ~result

\* what is left of one is_match call: the control points still to pass and
\* the characters still to feed
StepsLeft ==
    (CASE pc = "init_state" -> 3
       [] pc = "start" -> 2
       [] pc = "loop" -> 1
       [] OTHER -> 0) * (Len(input) + 2)
    + (IF pc = "loop" THEN Len(input) + 1 - pos ELSE 0)

\* a step of is_match can be taken: the guard of one of its actions holds
\* (the calls made by the actions are total operators)
CanStep ==
    \/ pc \in {"init_state", "start"}
    \/ pc = "loop" /\ pos \in 1..(Len(input) + 1)

\* C16: is_match ends with a boolean: every step before the return can be
\* taken and brings the return nearer, start() is called exactly once and
\* before any advance, and advance is called at most once per character, in
\* input order.
C16_MatchTerminates ==
    /\ [](/\ pc = "done" \/ CanStep
          /\ result \in BOOLEAN
          /\ pc \in {"init_state", "start"} => calls = 0
          /\ pc \in {"loop", "done"} =>
                /\ starts = 1
                /\ firstCall = "start"
                /\ calls - 1 <= Len(input)
                /\ track = {Prefix(input, calls - 1)}
          /\ pc = "loop" => calls = pos)
    /\ [][StepsLeft' < StepsLeft]_vars

C16_Witness ==
    /\ pc = "done"
    /\ Len(input) = MaxLen
    /\ calls = MaxLen + 1
    /\ result

\* the states the acceptance of which stands without looking at a sub-state:
\* an Empty state whose flag is set, a Star or Maybe state whose init is set
StandingCase(p, st) ==
    \/ p[1] = "Empty" /\ st.empty
    \/ p[1] \in {"Star", "Maybe"} /\ st.init

\* the answers of accepts() on a tracking state and on every state inside it
RECURSIVE AllAccepts(_, _)
AllAccepts(p, st) ==
    {accepts(p, st)} \cup
    (CASE p[1] \in {"Star", "Maybe"} -> AllAccepts(p[2], st.state)
       [] p[1] \in {"Alt", "Seq"} ->
            AllAccepts(p[2], st[1]) \cup AllAccepts(p[3], st[2])
       [] OTHER -> {})

\* C19 as stated: accepts() returns Always exactly for an Empty state still
\* tracking the empty string and for a Star or Maybe state whose init flag is
\* true.
C19_AlwaysExactly ==
    pc = "calls" =>
        (accepts(regex, state) = "Always" <=> StandingCase(regex, state))

\* C19 amended: no reachable tracking state of any pattern, nor any state
\* inside it, answers Always; an Empty state still tracking the empty string
\* and a Star or Maybe state whose init flag is true answer Yes.
C19_NeverAlways ==
    pc = "calls" =>
        /\ "Always" \notin AllAccepts(regex, state)
        /\ StandingCase(regex, state) => accepts(regex, state) = "Yes"

C19_Witness ==
    /\ pc = "calls"
    /\ regex[1] = "Star"
    /\ state.init
    /\ calls >= 2
    /\ track # {}
    /\ <<>> \notin track

\* ---------------------------------------------------------------------
\* A single SimpleState under arbitrary start / advance / die calls.  state
\* is the SimpleState value, input the names of the calls made so far;
\* pending and completed follow the two facts the value stands for: the
\* empty string is tracked, a one-character string is tracked.

InitSimple ==
    /\ state = SimpleState_new
    /\ pc = "simple"
    /\ input = <<>>
    /\ regex = dot
    /\ pos = 1
    /\ result = FALSE
    /\ IdleCalls
    /\ IdleOr
    /\ IdleTwo
    /\ IdleSimple

SimpleStart ==
    /\ pc = "simple"
    /\ calls < MaxCalls
    /\ state' = SimpleState_start(state)
    /\ pending' = TRUE
    /\ completed' = completed
    /\ input' = Append(input, "start")
    /\ calls' = calls + 1
    /\ UNCHANGED <<regex, pos, pc, result, track, starts, firstCall,
                   everNever, ox, oy, oz, ores, attempts, states>>

SimpleAdvance ==
    /\ pc = "simple"
    /\ calls < MaxCalls
    /\ state' = SimpleState_advance(state)
    /\ pending' = FALSE
    /\ completed' = pending
    /\ input' = Append(input, "advance")
    /\ calls' = calls + 1
    /\ UNCHANGED <<regex, pos, pc, result, track, starts, firstCall,
                   everNever, ox, oy, oz, ores, attempts, states>>

SimpleDie ==
    /\ pc = "simple"
    /\ calls < MaxCalls
    /\ state' = SimpleState_die(state)
    /\ pending' = FALSE
    /\ completed' = FALSE
    /\ input' = Append(input, "die")
    /\ calls' = calls + 1
    /\ UNCHANGED <<regex, pos, pc, result, track, starts, firstCall,
                   everNever, ox, oy, oz, ores, attempts, states>>

NextSimple ==
    \/ SimpleStart
    \/ SimpleAdvance
    \/ SimpleDie

SpecSimple == InitSimple /\ [][NextSimple]_vars

\* the SimpleState value standing for a pair of booleans
PairState(p, c) ==
    CASE p /\ ~c -> "Start"
      [] ~p /\ c -> "End"
      [] p /\ c -> "Both"
      [] OTHER -> "Neither"

\* C20: a SimpleState is the pair (pending, completed): start sets pending and
\* keeps completed (and is idempotent), advance moves pending to completed,
\* die clears both, accepts is Yes iff completed, else No iff pending, else
\* Never; Neither is left only by start.
C20_SimpleStatePair ==
    /\ [](pc = "simple" =>
            /\ state = PairState(pending, completed)
            /\ SimpleState_accepts(state) =
                 (IF completed THEN "Yes" ELSE IF pending THEN "No" ELSE "Never")
            /\ SimpleState_start(SimpleState_start(state)) = SimpleState_start(state)
            /\ SimpleState_advance(state) = PairState(FALSE, pending)
            /\ SimpleState_die(state) = PairState(FALSE, FALSE))
    /\ [][(pc = "simple" /\ state = "Neither" /\ state' # "Neither")
            => input' = Append(input, "start")]_vars

C20_Witness ==
    /\ pc = "simple"
    /\ state = "Both"
    /\ pending
    /\ completed
    /\ Len(input) = 3

\* the patterns whose tracking state is a SimpleState
SimpleLeaf(p) == p[1] \in {"Dot", "Char", "CharFrom"}

\* the SimpleState held by the tracking state of such a pattern
SimpleOf(p, st) == IF p[1] = "Dot" THEN st[1] ELSE st.state

\* C18: in every advance step of a Seq state, A's new state is A advanced, B's
\* new state is B's state from before the step advanced and then, only if A
\* now accepts, started; so a B begun at this step has not consumed the
\* step's character: it is in a freshly started condition (starting it again
\* changes nothing, and a SimpleState B is pending).
C18_SeqAdvanceOrder ==
    [][(pc = "loop" /\ pos <= Len(input) /\ regex[1] = "Seq") =>
        LET A == regex[2]
            B == regex[3]
            ch == input[pos]
            advancedB == advance(B, state[2], ch)
        IN  /\ state'[1] = advance(A, state[1], ch)
            /\ IF as_bool(accepts(A, state'[1]))
               THEN /\ state'[2] = start(B, advancedB)
                    /\ start(B, state'[2]) = state'[2]
                    /\ SimpleLeaf(B) => SimpleOf(B, state'[2]) \in {"Start", "Both"}
               ELSE state'[2] = advancedB]_vars

C18_Witness ==
    /\ pc = "loop"
    /\ regex[1] = "Seq"
    /\ SimpleLeaf(regex[3])
    /\ calls = 3
    /\ as_bool(accepts(regex[2], state[1]))
    /\ SimpleOf(regex[3], state[2]) = "Both"

\* ---------------------------------------------------------------------
\* The derivative engine of src/src/arena_regex.rs.  A Regex is the record
\* [nullable, contents]; contents is a tagged tuple whose Seq, Alt and Star
\* operands are the Regex values the arena references point to.

\* the order of char, for CharSet(min, max)
CharOrd(c) == CASE c = "a" -> 1 [] c = "b" -> 2 [] OTHER -> 3

RegexStorage_void == [nullable |-> FALSE, contents |-> <<"Void">>]

RegexStorage_epsilon == [nullable |-> TRUE, contents |-> <<"Epsilon">>]

RegexStorage_char(ch) == [nullable |-> FALSE, contents |-> <<"Char", ch>>]

RegexStorage_char_set(min, max) ==
    [nullable |-> FALSE, contents |-> <<"CharSet", min, max>>]

RegexStorage_seq(x, y) ==
    IF x.contents[1] = "Void" \/ y.contents[1] = "Void" THEN RegexStorage_void
    ELSE IF x.contents[1] = "Epsilon" THEN y
    ELSE IF y.contents[1] = "Epsilon" THEN x
    ELSE [nullable |-> x.nullable /\ y.nullable, contents |-> <<"Seq", x, y>>]

\* RegexStorage_alt dropping an Epsilon operand without asking whether the
\* other operand is nullable
RegexStorage_alt_unguarded(x, y) ==
    IF x.contents[1] = "Void" THEN y
    ELSE IF y.contents[1] = "Void" THEN x
    ELSE IF x.contents[1] = "Epsilon" THEN y
    ELSE IF y.contents[1] = "Epsilon" THEN x
    ELSE [nullable |-> x.nullable \/ y.nullable, contents |-> <<"Alt", x, y>>]

RegexStorage_alt(x, y) ==
    IF x.contents[1] = "Void" THEN y
    ELSE IF y.contents[1] = "Void" THEN x
    ELSE IF x.contents[1] = "Epsilon" /\ y.nullable THEN y
    ELSE IF y.contents[1] = "Epsilon" /\ x.nullable THEN x
    ELSE [nullable |-> x.nullable \/ y.nullable, contents |-> <<"Alt", x, y>>]

RegexStorage_star(x) ==
    IF x.contents[1] \in {"Void", "Epsilon"} THEN RegexStorage_epsilon
    ELSE IF x.contents[1] = "Star" THEN x
    ELSE [nullable |-> TRUE, contents |-> <<"Star", x>>]

RECURSIVE RegexStorage_deriv(_, _)
RegexStorage_deriv(c, r) ==
    LET k == r.contents
    IN  IF k[1] \in {"Void", "Epsilon"} THEN RegexStorage_void
        ELSE IF k[1] = "Char" THEN
            IF c = k[2] THEN RegexStorage_epsilon ELSE RegexStorage_void
        ELSE IF k[1] = "CharSet" THEN
            IF CharOrd(k[2]) <= CharOrd(c) /\ CharOrd(c) <= CharOrd(k[3])
            THEN RegexStorage_epsilon
            ELSE RegexStorage_void
        ELSE IF k[1] = "Seq" THEN
            IF k[2].nullable
            THEN RegexStorage_alt(
                     RegexStorage_seq(RegexStorage_deriv(c, k[2]), k[3]),
                     RegexStorage_deriv(c, k[3]))
            ELSE RegexStorage_seq(RegexStorage_deriv(c, k[2]), k[3])
        ELSE IF k[1] = "Alt" THEN
            RegexStorage_alt(RegexStorage_deriv(c, k[2]),
                             RegexStorage_deriv(c, k[3]))
        ELSE RegexStorage_seq(RegexStorage_deriv(c, k[2]), r)

\* A regex as its user writes it: the tree of constructor calls.
\*   <<"void">>, <<"epsilon">>, <<"char", c>>, <<"char_set", min, max>>,
\*   <<"seq", t, u>>, <<"alt", t, u>>, <<"star", t>>
TermLeaves ==
    {<<"void">>, <<"epsilon">>, <<"char", "a">>, <<"char", "b">>,
     <<"char_set", "a", "b">>, <<"char_set", "b", "a">>}

TermsOfSize[n \in 1..(MaxTermSize + 2)] ==
    IF n = 1 THEN TermLeaves
    ELSE {<<"star", t>> : t \in TermsOfSize[n - 1]}
         \cup UNION {
                {<<"seq", t, u>> : t \in TermsOfSize[i], u \in TermsOfSize[n - 1 - i]}
                \cup
                {<<"alt", t, u>> : t \in TermsOfSize[i], u \in TermsOfSize[n - 1 - i]}
              : i \in 1..(n - 2)}

Terms == UNION {TermsOfSize[n] : n \in 1..MaxTermSize}

\* the Regex value the constructor calls of a term return
RECURSIVE Build(_)
Build(t) ==
    CASE t[1] = "void" -> RegexStorage_void
      [] t[1] = "epsilon" -> RegexStorage_epsilon
      [] t[1] = "char" -> RegexStorage_char(t[2])
      [] t[1] = "char_set" -> RegexStorage_char_set(t[2], t[3])
      [] t[1] = "seq" -> RegexStorage_seq(Build(t[2]), Build(t[3]))
      [] t[1] = "alt" -> RegexStorage_alt(Build(t[2]), Build(t[3]))
      [] OTHER -> RegexStorage_star(Build(t[2]))

\* matches(input, regex): regex is the term, state the current derivative
InitDeriv ==
    /\ regex \in Terms
    /\ input \in Strings
    /\ state = Build(regex)
    /\ pos = 1
    /\ pc = "matches"
    /\ result = FALSE
    /\ IdleCalls
    /\ IdleOr
    /\ IdleTwo
    /\ IdleSimple

\* one iteration of `for c in input.chars()`
DerivLoop ==
    /\ pc = "matches"
    /\ pos <= Len(input)
    /\ state' = RegexStorage_deriv(input[pos], state)
    /\ IF state'.contents[1] = "Void"
       THEN /\ result' = FALSE
            /\ pc' = "matched"
            /\ pos' = pos
       ELSE /\ pos' = pos + 1
            /\ UNCHANGED <<pc, result>>
    /\ UNCHANGED <<regex, input, track, calls, starts, firstCall,
                   everNever, ox, oy, oz, ores,
                   attempts, states, pending, completed>>

\* regex.nullable
DerivReturn ==
    /\ pc = "matches"
    /\ pos > Len(input)
    /\ result' = state.nullable
    /\ pc' = "matched"
    /\ UNCHANGED <<regex, input, state, pos, track, calls, starts, firstCall,
                   everNever, ox, oy, oz, ores,
                   attempts, states, pending, completed>>

NextDeriv ==
    \/ DerivLoop
    \/ DerivReturn

SpecDeriv == InitDeriv /\ [][NextDeriv]_vars

\* s belongs to the language the constructor term t denotes
RECURSIVE TermLanguage(_, _)
TermLanguage(t, s) ==
    CASE t[1] = "void" -> FALSE
      [] t[1] = "epsilon" -> s = <<>>
      [] t[1] = "char" -> s = <<t[2]>>
      [] t[1] = "char_set" ->
            /\ Len(s) = 1
            /\ CharOrd(t[2]) <= CharOrd(s[1])
            /\ CharOrd(s[1]) <= CharOrd(t[3])
      [] t[1] = "seq" ->
            \E k \in 0..Len(s) :
                TermLanguage(t[2], Prefix(s, k)) /\ TermLanguage(t[3], Suffix(s, k))
      [] t[1] = "alt" -> TermLanguage(t[2], s) \/ TermLanguage(t[3], s)
      [] OTHER ->
            \/ s = <<>>
            \/ \E k \in 1..Len(s) :
                TermLanguage(t[2], Prefix(s, k)) /\ TermLanguage(t, Suffix(s, k))

\* the derivative by all of s, taken without leaving early
RECURSIVE deriv_all(_, _, _)
deriv_all(r, s, i) ==
    IF i > Len(s) THEN r ELSE deriv_all(RegexStorage_deriv(s[i], r), s, i + 1)

\* C17: matches(input, regex) is true iff the whole input is in the language
\* of the regex as built by the constructors; leaving at a Void derivative
\* gives the answer of the full fold, which is the nullable flag of the last
\* derivative.
C17_DerivMatches ==
    /\ pc = "matched" =>
          /\ result <=> TermLanguage(regex, input)
          /\ result <=> deriv_all(Build(regex), input, 1).nullable
    /\ pc = "matches" =>
          /\ state = deriv_all(Build(regex), Prefix(input, pos - 1), 1)
          /\ state.nullable <=> TermLanguage(regex, Prefix(input, pos - 1))

C17_Witness ==
    /\ pc = "matched"
    /\ regex[1] = "seq"
    /\ regex[2][1] = "star"
    /\ Len(input) = 3
    /\ pos = 4
    /\ result

\* ---------------------------------------------------------------------
\* Two is_match calls on one pattern value, their steps interleaved.
\* attempts[i] is the frame of call i (its input, the position of its
\* iterator, its control point, its return value); states[k] is the storage
\* of a `state` local: live once init_state has filled it, st its value.

TwoAlphabet == {"a", "b"}

TwoStrings == UNION {[1..n -> TwoAlphabet] : n \in 0..MaxTwoLen}

TwoPatterns == PatsUpTo(MaxTwoSize)

\* every call using one and the same storage for its state
owner_slot_shared(i) == 1

\* the storage of the `state` local of call i: a local of its own
owner_slot(i) == i

InitTwo ==
    /\ regex \in TwoPatterns
    /\ attempts \in [1..2 -> {[input |-> s, pos |-> 1, pc |-> "init_state",
                               result |-> FALSE] : s \in TwoStrings}]
    /\ states = <<[live |-> FALSE, st |-> NoState],
                  [live |-> FALSE, st |-> NoState]>>
    /\ pc = "two"
    /\ input = <<>>
    /\ state = NoState
    /\ pos = 1
    /\ result = FALSE
    /\ IdleCalls
    /\ IdleOr
    /\ IdleSimple

\* let mut state = self.init_state();
TwoInitState(i) ==
    /\ pc = "two"
    /\ attempts[i].pc = "init_state"
    /\ states' = [states EXCEPT
                    ![owner_slot(i)] = [live |-> TRUE, st |-> init_state(regex)]]
    /\ attempts' = [attempts EXCEPT ![i].pc = "start"]
    /\ UNCHANGED <<regex, input, state, pos, pc, result, track, calls, starts,
                   firstCall, everNever, ox, oy, oz, ores, pending, completed>>

\* state.start();
TwoStart(i) ==
    /\ pc = "two"
    /\ attempts[i].pc = "start"
    /\ states' = [states EXCEPT
                    ![owner_slot(i)].st = start(regex, states[owner_slot(i)].st)]
    /\ attempts' = [attempts EXCEPT ![i].pc = "loop"]
    /\ UNCHANGED <<regex, input, state, pos, pc, result, track, calls, starts,
                   firstCall, everNever, ox, oy, oz, ores, pending, completed>>

\* one iteration of `for ch in input.chars()`
TwoLoop(i) ==
    /\ pc = "two"
    /\ attempts[i].pc = "loop"
    /\ attempts[i].pos <= Len(attempts[i].input)
    /\ LET st2 == advance(regex, states[owner_slot(i)].st,
                          attempts[i].input[attempts[i].pos])
           a == accepts(regex, st2)
       IN  /\ states' = [states EXCEPT ![owner_slot(i)].st = st2]
           /\ attempts' =
                CASE a = "Never" ->
                       [attempts EXCEPT ![i].pc = "done", ![i].result = FALSE]
                  [] a = "Always" ->
                       [attempts EXCEPT ![i].pc = "done", ![i].result = TRUE]
                  [] OTHER ->
                       [attempts EXCEPT ![i].pos = attempts[i].pos + 1]
    /\ UNCHANGED <<regex, input, state, pos, pc, result, track, calls, starts,
                   firstCall, everNever, ox, oy, oz, ores, pending, completed>>

\* state.accepts().as_bool()
TwoReturn(i) ==
    /\ pc = "two"
    /\ attempts[i].pc = "loop"
    /\ attempts[i].pos > Len(attempts[i].input)
    /\ attempts' = [attempts EXCEPT
                      ![i].pc = "done",
                      ![i].result =
                          as_bool(accepts(regex, states[owner_slot(i)].st))]
    /\ UNCHANGED <<regex, input, state, pos, pc, result, states, track, calls,
                   starts, firstCall, everNever, ox, oy, oz, ores,
                   pending, completed>>

NextTwo ==
    \E i \in 1..2 :
        \/ TwoInitState(i)
        \/ TwoStart(i)
        \/ TwoLoop(i)
        \/ TwoReturn(i)

SpecTwo == InitTwo /\ [][NextTwo]_vars

\* C15: two attempts on one pattern, interleaved in any order, each return
\* what is_match returns when run alone, and each is at every moment in the
\* state of that run; no step changes the pattern, and a step of one attempt
\* leaves the tracking state of the other as it was.
C15_AttemptsIndependent ==
    /\ [](pc = "two" =>
            \A i \in 1..2 :
                /\ attempts[i].pc = "done" =>
                      attempts[i].result = is_match(regex, attempts[i].input)
                /\ attempts[i].pc = "loop" =>
                      /\ states[i].live
                      /\ states[i].st =
                           advance_all(regex, start(regex, init_state(regex)),
                                       Prefix(attempts[i].input,
                                              attempts[i].pos - 1), 1))
    /\ [][pc = "two" =>
            /\ regex' = regex
            /\ \A i \in 1..2 :
                  attempts'[i] = attempts[i] =>
                      /\ states'[i].live = states[i].live
                      /\ states[i].live => states'[i].st = states[i].st]_vars

C15_Witness ==
    /\ pc = "two"
    /\ attempts[1].pc = "loop"
    /\ attempts[2].pc = "loop"
    /\ attempts[1].pos = 2
    /\ attempts[2].pos = 2
    /\ attempts[1].input # attempts[2].input
    /\ states[1] # states[2]

\* C21: on every reachable tracking state of every pattern, start() called
\* twice in a row leaves the state, and the answer of accepts(), that one
\* call leaves.
C21_StartIdempotent ==
    pc = "calls" =>
        LET once == start(regex, state)
            twice == start(regex, once)
        IN  /\ twice = once
            /\ accepts(regex, twice) = accepts(regex, once)

\* a Seq state after advance, start, start, its B started because A accepts
C21_Witness ==
    /\ pc = "calls"
    /\ regex[1] = "Seq"
    /\ calls = 3
    /\ starts = 2
    /\ track = {<<>>}
    /\ as_bool(accepts(regex[2], state[1]))
    /\ state[2] # init_state(regex[3])

====
